---- MODULE Spec2Model ----
(***************************************************************************)
(* autodiscover-mail-toml: the layered configuration resolver of           *)
(* src/src/autodiscovermail/main.py (get_context, ConfigClass and its      *)
(* subclasses, EmailAddress.from_string).                                  *)
(*                                                                         *)
(* A Python str is modelled as a sequence of one-character strings, so     *)
(* that str.split, str.strip, str.replace and the placeholder regex are    *)
(* computed character by character as the interpreter computes them.       *)
(***************************************************************************)
EXTENDS Integers, Sequences, FiniteSets

VARIABLES config, static_references, request, email_address, arg, result, first, calls

vars == <<config, static_references, request, email_address, arg, result, first, calls>>

(***************************************************************************)
(* Bounds of the model.                                                    *)
(***************************************************************************)
\* The interpreter's recursion guard, counted in nested value_proxy /
\* self_reference calls; deep enough for every acyclic reference chain of
\* the configurations below.
MaxDepth == 24
\* get_context calls made with one EmailAddress object.
MaxCalls == 2
\* Longest request string of the identity-parsing specification.
MaxAddrLen == 4

(***************************************************************************)
(* Python str operations.                                                  *)
(***************************************************************************)
Chars(s) == {s[i] : i \in 1..Len(s)}

RECURSIVE lstrip(_, _)
lstrip(s, chars) ==
    IF s # <<>> /\ Head(s) \in chars THEN lstrip(Tail(s), chars) ELSE s

RECURSIVE rstrip(_, _)
rstrip(s, chars) ==
    IF s # <<>> /\ s[Len(s)] \in chars
    THEN rstrip(SubSeq(s, 1, Len(s) - 1), chars)
    ELSE s

\* str.strip(chars): removes from both ends every character that occurs in
\* chars (chars is a set of characters, not a prefix).
strip(s, chars) == rstrip(lstrip(s, Chars(chars)), Chars(chars))

\* str.replace(old, new): every non-overlapping occurrence, left to right.
RECURSIVE replace(_, _, _)
replace(s, old, new) ==
    IF Len(s) < Len(old) THEN s
    ELSE IF SubSeq(s, 1, Len(old)) = old
         THEN new \o replace(SubSeq(s, Len(old) + 1, Len(s)), old, new)
         ELSE <<Head(s)>> \o replace(Tail(s), old, new)

\* str.split(sep) for a one-character separator: splits at every sep.
RECURSIVE split(_, _)
split(s, sep) ==
    IF \E i \in 1..Len(s) : s[i] = sep
    THEN LET i == CHOOSE i \in 1..Len(s) :
                      s[i] = sep /\ \A j \in 1..(i - 1) : s[j] # sep
         IN <<SubSeq(s, 1, i - 1)>> \o split(SubSeq(s, i + 1, Len(s)), sep)
    ELSE <<s>>

\* str.split(sep, 1): splits at the first sep only.
split_first(s, sep) ==
    IF \E i \in 1..Len(s) : s[i] = sep
    THEN LET i == CHOOSE i \in 1..Len(s) :
                      s[i] = sep /\ \A j \in 1..(i - 1) : s[j] # sep
         IN <<SubSeq(s, 1, i - 1), SubSeq(s, i + 1, Len(s))>>
    ELSE <<s>>

(***************************************************************************)
(* value_match = re.compile(r"##(?P<name>[^#]+)##") and its finditer:      *)
(* the names of the non-overlapping matches, left to right.                *)
(***************************************************************************)
\* the end of the run of non-# characters that starts at position i
RunEnd(s, i) ==
    CHOOSE j \in i..(Len(s) + 1) :
        /\ (j = Len(s) + 1 \/ s[j] = "#")
        /\ \A k \in i..(j - 1) : s[k] # "#"

MatchAt(s, i) ==
    /\ i + 4 <= Len(s)
    /\ s[i] = "#" /\ s[i + 1] = "#"
    /\ s[i + 2] # "#"
    /\ LET j == RunEnd(s, i + 2)
       IN j + 1 <= Len(s) /\ s[j] = "#" /\ s[j + 1] = "#"

RECURSIVE FindFrom(_, _)
FindFrom(s, i) ==
    IF i > Len(s) THEN <<>>
    ELSE IF MatchAt(s, i)
         THEN LET j == RunEnd(s, i + 2)
              IN <<SubSeq(s, i + 2, j - 1)>> \o FindFrom(s, j + 2)
         ELSE FindFrom(s, i + 1)

value_match(s) == FindFrom(s, 1)

\* value_template expanded for a match: "##" name "##"
value_template(name) == <<"#", "#">> \o name \o <<"#", "#">>

\* a string holds a placeholder when the regex matches somewhere in it
HasPlaceholder(s) == value_match(s) # <<>>

(***************************************************************************)
(* Field names (the keys of each dataclass instance's __dict__), prefixes  *)
(* and literals of the source, as character sequences.                     *)
(***************************************************************************)
k_stack == <<"_", "s", "t", "a", "c", "k">>
k_prefix == <<"p", "r", "e", "f", "i", "x">>
k_id == <<"i", "d">>
k_name_short == <<"n", "a", "m", "e", "_", "s", "h", "o", "r", "t">>
k_name_display == <<"n", "a", "m", "e", "_", "d", "i", "s", "p", "l", "a", "y">>
k_domains == <<"d", "o", "m", "a", "i", "n", "s">>
k_in_server == <<"i", "n", "_", "s", "e", "r", "v", "e", "r">>
k_out_server == <<"o", "u", "t", "_", "s", "e", "r", "v", "e", "r">>
k_address == <<"a", "d", "d", "r", "e", "s", "s">>
k_host == <<"h", "o", "s", "t">>
k_port == <<"p", "o", "r", "t">>
k_socket == <<"s", "o", "c", "k", "e", "t">>
k_type == <<"t", "y", "p", "e">>
k_auth == <<"a", "u", "t", "h">>
k_user == <<"u", "s", "e", "r">>
k_full_address == <<"f", "u", "l", "l", "_", "a", "d", "d", "r", "e", "s", "s">>
k_domain == <<"d", "o", "m", "a", "i", "n">>
k_local_part == <<"l", "o", "c", "a", "l", "_", "p", "a", "r", "t">>

\* prefix of InServer, OutServer and of the nodes that set none
in_ == <<"i", "n", "_">>
out_ == <<"o", "u", "t", "_">>
no_prefix == <<>>

\* the key and the value of ConfigClass.static_references
EMAILADDRESS == <<"E", "M", "A", "I", "L", "A", "D", "D", "R", "E", "S", "S">>
full_address_ref == <<"#", "#", "f", "u", "l", "l", "_", "a", "d", "d", "r", "e", "s", "s", "#", "#">>

\* field defaults of MailServer, InServer and OutServer
STARTTLS == <<"S", "T", "A", "R", "T", "T", "L", "S">>
imap == <<"i", "m", "a", "p">>
smtp == <<"s", "m", "t", "p">>
plain_password == <<"p", "l", "a", "i", "n", "-", "p", "a", "s", "s", "w", "o", "r", "d">>
percent_EMAILADDRESS == <<"%", "E", "M", "A", "I", "L", "A", "D", "D", "R", "E", "S", "S", "%">>

(***************************************************************************)
(* Python values: a str, an int, a list/tuple of str, a ConfigClass        *)
(* instance, or None.  One record shape for all, so that values of         *)
(* different types can be compared.                                        *)
(***************************************************************************)
V_str(s) == [t |-> "str", s |-> s, n |-> 0, l |-> <<>>]
V_int(n) == [t |-> "int", s |-> <<>>, n |-> n, l |-> <<>>]
V_list(l) == [t |-> "list", s |-> <<>>, n |-> 0, l |-> l]
V_node == [t |-> "node", s |-> <<>>, n |-> 0, l |-> <<>>]
V_none == [t |-> "none", s |-> <<>>, n |-> 0, l |-> <<>>]

\* a dict with no key
EmptyDict == [k \in {} |-> V_none]

\* the dict of a sequence of <<key, value>> items with distinct keys
Dict(items) ==
    [k \in {items[i][1] : i \in 1..Len(items)} |->
        items[CHOOSE i \in 1..Len(items) : items[i][1] = k][2]]

\* d[key] = val
setitem(d, key, val) ==
    [k \in DOMAIN d \cup {key} |-> IF k = key THEN val ELSE d[k]]

(***************************************************************************)
(* The dataclasses: each instance is its __dict__, a function from field   *)
(* name to value; the key sequences give the order of __dict__.keys().     *)
(***************************************************************************)
ProviderKeys ==
    <<k_stack, k_prefix, k_id, k_name_short, k_name_display, k_domains,
      k_in_server, k_out_server, k_address>>

MailServerKeys ==
    <<k_stack, k_prefix, k_host, k_port, k_socket, k_type, k_auth, k_user>>

EmailAddressKeys ==
    <<k_stack, k_prefix, k_full_address, k_domain, k_local_part>>

\* the tree's nodes in the order Provider's __dict__ holds them
Children == <<"in_server", "out_server", "address">>

KeysOf(node) ==
    CASE node = "root" -> ProviderKeys
      [] node = "address" -> EmailAddressKeys
      [] OTHER -> MailServerKeys

\* EmailAddress(full_address=..., domain=..., local_part=...)
EmailAddress(full, domain, local) ==
    Dict(<< <<k_stack, V_list(<<>>)>>, <<k_prefix, V_str(no_prefix)>>,
            <<k_full_address, V_str(full)>>, <<k_domain, V_str(domain)>>,
            <<k_local_part, V_str(local)>> >>)

\* from_string as it would be with address.split("@", 1): split at the
\* first "@" only
from_string_first(address) ==
    LET parts == split_first(address, "@")
    IN IF Len(parts) = 2
       THEN EmailAddress(address, parts[2], parts[1])
       ELSE EmailAddress(address, <<>>, <<>>)

\* EmailAddress.from_string: the unpacking of address.split("@") into two
\* names raises ValueError unless the list has exactly two elements.
from_string(address) ==
    LET parts == split(address, "@")
    IN IF Len(parts) = 2
       THEN EmailAddress(address, parts[2], parts[1])
       ELSE EmailAddress(address, <<>>, <<>>)

MailServer(prefix, port, type) ==
    Dict(<< <<k_stack, V_list(<<>>)>>, <<k_prefix, V_str(prefix)>>,
            <<k_host, V_str(<<>>)>>, <<k_port, V_int(port)>>,
            <<k_socket, V_str(STARTTLS)>>, <<k_type, V_str(type)>>,
            <<k_auth, V_list(<<plain_password>>)>>,
            <<k_user, V_str(percent_EMAILADDRESS)>> >>)

InServer == MailServer(in_, 143, imap)

OutServer == MailServer(out_, 587, smtp)

\* Provider(): the root and its three default children; tuple("",) is ()
Provider ==
    [root |-> Dict(<< <<k_stack, V_list(<<>>)>>, <<k_prefix, V_str(no_prefix)>>,
                      <<k_id, V_str(<<>>)>>, <<k_name_short, V_str(<<>>)>>,
                      <<k_name_display, V_str(<<>>)>>, <<k_domains, V_list(<<>>)>>,
                      <<k_in_server, V_node>>, <<k_out_server, V_node>>,
                      <<k_address, V_node>> >>),
     in_server |-> InServer,
     out_server |-> OutServer,
     address |-> from_string(<<>>)]

(***************************************************************************)
(* ConfigClass.update_from_config                                          *)
(***************************************************************************)
\* the second loop: every field but prefix is overwritten by the value
\* under the flat key prefix + field name, when the mapping has that key
import_fields(node, cfg) ==
    [k \in DOMAIN node |->
        IF k # k_prefix /\ (node[k_prefix].s \o k) \in DOMAIN cfg
        THEN cfg[node[k_prefix].s \o k]
        ELSE node[k]]

\* children first, then the root's own fields; the root's address field is
\* overwritten by the mapping's "address", the caller's EmailAddress object
update_from_config(tree, cfg, email) ==
    [root |-> import_fields(tree.root, cfg),
     in_server |-> import_fields(tree.in_server, cfg),
     out_server |-> import_fields(tree.out_server, cfg),
     address |-> IF k_address \in DOMAIN cfg
                 THEN email
                 ELSE import_fields(tree.address, cfg)]

(***************************************************************************)
(* ConfigClass.self_reference and ConfigClass.value_proxy.  A call returns *)
(* a str or raises; d is the depth of the call.                            *)
(***************************************************************************)
Return(v) == [ok |-> TRUE, val |-> v, err |-> "", name |-> <<>>]
Raise(e, name) == [ok |-> FALSE, val |-> <<>>, err |-> e, name |-> name]

\* lookup = name.strip(self.prefix)
local_name(name, prefix) == strip(name, prefix)

RECURSIVE self_reference(_, _, _, _, _)
RECURSIVE value_proxy(_, _, _, _)
RECURSIVE from_children(_, _, _, _, _, _, _)
RECURSIVE substitute(_, _, _, _, _, _)

\* the loop over the node's children: the last child that returns wins, a
\* KeyError of a child is swallowed, any other exception propagates
from_children(kids, i, new_name, name, tree, refs, d) ==
    IF i > Len(kids) THEN [ok |-> TRUE, new_name |-> new_name, r |-> Return(<<>>)]
    ELSE LET r == self_reference(kids[i], name, tree, refs, d + 1)
         IN IF r.ok
            THEN from_children(kids, i + 1, V_str(r.val), name, tree, refs, d)
            ELSE IF r.err = "KeyError"
                 THEN from_children(kids, i + 1, new_name, name, tree, refs, d)
                 ELSE [ok |-> FALSE, new_name |-> V_none, r |-> r]

\* self_reference that returns the value it found as it is, without
\* resolving the placeholders inside it
self_reference_raw(node, name, tree, refs, d) ==
    IF d > MaxDepth THEN Raise("RecursionError", name)
    ELSE
    LET kids == IF node = "root" THEN Children ELSE <<>>
        c == from_children(kids, 1, V_none, name, tree, refs, d)
        lookup == local_name(name, tree[node][k_prefix].s)
        new_name ==
            IF lookup \in DOMAIN tree[node] THEN tree[node][lookup]
            ELSE IF name \in DOMAIN refs THEN V_str(refs[name])
            ELSE c.new_name
    IN IF ~c.ok THEN c.r
       ELSE IF new_name.t = "none" THEN Raise("KeyError", name)
       ELSE IF new_name.t # "str" THEN Raise("TypeError", name)
       ELSE Return(new_name.s)

self_reference(node, name, tree, refs, d) ==
    IF d > MaxDepth THEN Raise("RecursionError", name)
    ELSE
    LET kids == IF node = "root" THEN Children ELSE <<>>
        c == from_children(kids, 1, V_none, name, tree, refs, d)
        lookup == local_name(name, tree[node][k_prefix].s)
        new_name ==
            IF lookup \in DOMAIN tree[node] THEN tree[node][lookup]
            ELSE IF name \in DOMAIN refs THEN V_str(refs[name])
            ELSE c.new_name
    IN IF ~c.ok THEN c.r
       ELSE IF new_name.t = "none" THEN Raise("KeyError", name)
       ELSE IF new_name.t # "str" THEN Raise("TypeError", name)
       ELSE value_proxy(new_name.s, tree, refs, d + 1)

\* the loop over the matches found in the original string
substitute(new_value, matches, i, tree, refs, d) ==
    IF i > Len(matches) THEN Return(new_value)
    ELSE LET r == self_reference("root", matches[i], tree, refs, d + 1)
         IN IF ~r.ok THEN r
            ELSE substitute(replace(new_value, value_template(matches[i]), r.val),
                            matches, i + 1, tree, refs, d)

value_proxy(name, tree, refs, d) ==
    IF d > MaxDepth THEN Raise("RecursionError", name)
    ELSE substitute(name, value_match(name), 1, tree, refs, d)

(***************************************************************************)
(* ConfigClass.resolve_references: the children's fields first, in the     *)
(* order of Provider's __dict__, then the root's own; every str field but  *)
(* prefix is replaced by value_proxy of its value, looked up in the root.  *)
(* An exception leaves the fields already rewritten as they are.           *)
(***************************************************************************)
FieldsOf(node) == [i \in 1..Len(KeysOf(node)) |-> <<node, KeysOf(node)[i]>>]

ResolveOrder ==
    FieldsOf("in_server") \o FieldsOf("out_server") \o FieldsOf("address")
        \o FieldsOf("root")

RECURSIVE resolve_fields(_, _, _, _)
resolve_fields(tree, todo, i, refs) ==
    IF i > Len(todo) THEN [ok |-> TRUE, tree |-> tree, err |-> "", name |-> <<>>]
    ELSE LET node == todo[i][1]
             key == todo[i][2]
             value == tree[node][key]
         IN IF key = k_prefix \/ value.t # "str"
            THEN resolve_fields(tree, todo, i + 1, refs)
            ELSE LET r == value_proxy(value.s, tree, refs, 1)
                 IN IF ~r.ok
                    THEN [ok |-> FALSE, tree |-> tree, err |-> r.err, name |-> r.name]
                    ELSE resolve_fields([tree EXCEPT ![node][key] = V_str(r.val)],
                                        todo, i + 1, refs)

resolve_references(tree, refs) == resolve_fields(tree, ResolveOrder, 1, refs)

(***************************************************************************)
(* get_context.  The raw configuration is {provider, domain, user}; a      *)
(* section is a dict, domain and user are dicts of dicts.  The working     *)
(* mapping `base` is either a copy of config["provider"] or, were the copy *)
(* left out, the provider dict itself: a write to base then writes the     *)
(* provider section too.                                                   *)
(***************************************************************************)
\* copy left out: base = config["provider"]
no_copy(d) == [dict |-> d, shared |-> TRUE]

\* config["provider"].copy()
copy(d) == [dict |-> d, shared |-> FALSE]

\* update with base.setdefault(key, layer[key]): keys that base already has
\* are kept
update_setdefault(d, layer) ==
    [k \in DOMAIN d \cup DOMAIN layer |-> IF k \in DOMAIN d THEN d[k] ELSE layer[k]]

\* for key in layer.keys(): d[key] = layer[key]
update(d, layer) ==
    [k \in DOMAIN d \cup DOMAIN layer |-> IF k \in DOMAIN layer THEN layer[k] ELSE d[k]]

\* base[key] = val
base_setitem(m, key, val) ==
    [m EXCEPT !.base = setitem(@, key, val),
              !.config.provider = IF m.shared THEN setitem(@, key, val) ELSE @]

base_update(m, layer) ==
    [m EXCEPT !.base = update(@, layer),
              !.config.provider = IF m.shared THEN update(@, layer) ELSE @]

\* f"{email_address.local_part}@{email_address.domain}"
addr(email) == email[k_local_part].s \o <<"@">> \o email[k_domain].s

\* config.get("provider", {}).get("domains", [])
served_domains(cfg) ==
    IF k_domains \in DOMAIN cfg.provider THEN cfg.provider[k_domains].l ELSE <<>>

\* not_found with the innermost test inverted
not_found_inverted(cfg, email) ==
    /\ email[k_domain].s # <<>>
    /\ \A i \in 1..Len(served_domains(cfg)) :
           served_domains(cfg)[i] # email[k_domain].s
    /\ email[k_domain].s \notin DOMAIN cfg.domain
    /\ addr(email) \in DOMAIN cfg.user

\* the nested tests that end in raise HTTPException(status_code=404)
not_found(cfg, email) ==
    /\ email[k_domain].s # <<>>
    /\ \A i \in 1..Len(served_domains(cfg)) :
           served_domains(cfg)[i] # email[k_domain].s
    /\ email[k_domain].s \notin DOMAIN cfg.domain
    /\ addr(email) \notin DOMAIN cfg.user

\* merge_user without base["domains"] = [domain]
merge_user_no_narrow(m, email) ==
    IF addr(email) \in DOMAIN m.config.user
    THEN base_update(m, m.config.user[addr(email)])
    ELSE m

\* the first try block: the domain layer, then base["domains"] = [domain]
merge_domain(m, email) ==
    IF email[k_domain].s \in DOMAIN m.config.domain
    THEN base_setitem(base_update(m, m.config.domain[email[k_domain].s]),
                      k_domains, V_list(<<email[k_domain].s>>))
    ELSE m

\* the second try block: the user layer, then base["domains"] = [domain]
merge_user(m, email) ==
    IF addr(email) \in DOMAIN m.config.user
    THEN base_setitem(base_update(m, m.config.user[addr(email)]),
                      k_domains, V_list(<<email[k_domain].s>>))
    ELSE m

\* base as the two try blocks leave it, before base["address"] is set
merge(cfg, email) ==
    LET c == copy(cfg.provider)
    IN merge_user(merge_domain([config |-> cfg, base |-> c.dict, shared |-> c.shared],
                               email),
                  email)

\* what a call gives: its outcome ("context" for a return, else the
\* exception), the mapping the two try blocks leave, the tree after
\* update_from_config and after resolve_references, and the objects the
\* call may have written: the raw configuration and the EmailAddress
get_context(cfg, email, refs) ==
    IF not_found(cfg, email)
    THEN [outcome |-> "HTTPException", name |-> <<>>, merged |-> EmptyDict,
          imported |-> Provider, tree |-> Provider, email |-> email, config |-> cfg]
    ELSE LET merged == merge(cfg, email)
             m == base_setitem(merged, k_address, V_node)
             imported == update_from_config(Provider, m.base, email)
             r == resolve_references(imported, refs)
         IN [outcome |-> IF r.ok THEN "context" ELSE r.err, name |-> r.name,
             merged |-> merged.base, imported |-> imported, tree |-> r.tree,
             email |-> r.tree.address, config |-> m.config]

(***************************************************************************)
(* The raw configurations and request strings the model draws from.        *)
(***************************************************************************)
d == <<"d">>
e == <<"e">>
Pv == <<"a">>
Dv == <<"q">>
Uv == <<"u">>
a_at_d == <<"a", "@", "d">>
b_at_x == <<"b", "@", "x">>
nope == <<"n", "o", "p", "e">>

\* the request strings: served, overridden, unknown, without "@", with two
\* "@", holding placeholders, and the empty default
Identities ==
    { <<>>, a_at_d, <<"a", "@", "e">>, b_at_x, <<"a", "@", "z">>, <<"n", "a">>,
      <<"a", "@", "d", "@", "e">>, value_template(k_id) \o <<"@", "d">>,
      value_template(EMAILADDRESS) \o <<"@", "d">> }

\* -- configurations that vary the three layers, with literal values
LayerProviders ==
    { EmptyDict,
      Dict(<< <<k_domains, V_list(<<d>>)>> >>),
      Dict(<< <<k_domains, V_list(<<d, e>>)>> >>),
      Dict(<< <<k_domains, V_list(<<d>>)>>, <<k_id, V_str(Pv)>>,
              <<in_ \o k_host, V_str(Pv)>> >>),
      Dict(<< <<k_domains, V_list(<<d, e>>)>>, <<k_id, V_str(Pv)>>,
              <<in_ \o k_host, V_str(Pv)>>, <<out_ \o k_user, V_str(Pv)>> >>) }

Overrides(v) ==
    { EmptyDict,
      Dict(<< <<in_ \o k_host, V_str(v)>> >>),
      Dict(<< <<in_ \o k_host, V_str(v)>>, <<k_name_short, V_str(v)>>,
              <<k_domains, V_list(<<d, e>>)>> >>) }

DomainSections ==
    {EmptyDict} \cup {Dict(<< <<dom, ov>> >>) : dom \in {d, e}, ov \in Overrides(Dv)}

UserSections ==
    {EmptyDict} \cup {Dict(<< <<who, ov>> >>) : who \in {a_at_d, b_at_x}, ov \in Overrides(Uv)}

LayerConfigs ==
    { [provider |-> p, domain |-> ds, user |-> us] :
          p \in LayerProviders, ds \in DomainSections, us \in UserSections }

\* -- configurations that vary the references between fields; the provider
\*    serves d, there are no overrides
StrFlatKeys ==
    { k_id, k_name_short, k_name_display,
      in_ \o k_host, in_ \o k_socket, in_ \o k_type, in_ \o k_user,
      out_ \o k_host, out_ \o k_socket, out_ \o k_type, out_ \o k_user }

ChainKeys == { k_id, k_name_short, in_ \o k_host, in_ \o k_user, out_ \o k_host, out_ \o k_type }

RefProvider(fields) ==
    [provider |-> Dict(<< <<k_domains, V_list(<<d>>)>> >> \o fields),
     domain |-> EmptyDict, user |-> EmptyDict]

\* one field holding one value
SingleValues ==
    { value_template(k) : k \in StrFlatKeys }
    \cup { value_template(EMAILADDRESS),
           <<"x">> \o value_template(EMAILADDRESS) \o <<"y">>,
           value_template(nope), value_template(in_ \o k_port),
           value_template(in_ \o k_host \o <<"_">>),
           <<"x">> \o value_template(k_id) \o <<"y">> \o value_template(in_ \o k_type) }

SingleConfigs ==
    { RefProvider(<< <<k, V_str(v)>> >>) : k \in StrFlatKeys, v \in SingleValues }

\* X = ##A##, A = ##B##, B a literal
ChainConfigs ==
    { RefProvider(<< <<t[1], V_str(value_template(t[2]))>>,
                     <<t[2], V_str(value_template(t[3]))>>, <<t[3], V_str(Uv)>> >>) :
          t \in { u \in ChainKeys \X ChainKeys \X ChainKeys :
                      u[1] # u[2] /\ u[1] # u[3] /\ u[2] # u[3] } }

\* X refers to A, with "#" characters around the placeholder or in A's
\* value; A's value may refer back to X
PairKeys ==
    { <<k_id, k_name_short>>, <<in_ \o k_host, in_ \o k_user>>,
      <<in_ \o k_user, k_id>>, <<k_name_short, in_ \o k_host>> }

PairValues(X) ==
    { Uv, <<"#", "x", "#">>, <<"x", "#", "#", "y">>, value_template(nope),
      value_template(X) }

PairConfigs ==
    UNION { { RefProvider(<< <<xa[1], V_str(pre \o value_template(xa[2]) \o post)>>,
                             <<xa[2], V_str(v)>> >>) :
                  pre \in {<<>>, <<"#">>},
                  post \in {<<>>, <<"#">>, <<"z", "#", "#">>},
                  v \in PairValues(xa[1]) } :
            xa \in PairKeys }

\* X and A refer to each other; a third field Z refers to a name that no
\* field has, or there is no third field
CycleKeys ==
    { <<k_id, k_name_short, in_ \o k_host>>, <<in_ \o k_host, in_ \o k_user, k_id>>,
      <<k_id, in_ \o k_host, k_name_short>>, <<k_id, out_ \o k_host, in_ \o k_user>>,
      <<out_ \o k_host, out_ \o k_user, k_id>> }

CycleConfigs ==
    UNION { { RefProvider(<< <<t[1], V_str(value_template(t[2]))>>,
                             <<t[2], V_str(value_template(t[1]))>> >>),
              RefProvider(<< <<t[1], V_str(value_template(t[2]))>>,
                             <<t[2], V_str(value_template(t[1]))>>,
                             <<t[3], V_str(value_template(nope))>> >>),
              RefProvider(<< <<t[1], V_str(value_template(nope) \o value_template(t[2]))>>,
                             <<t[2], V_str(value_template(t[1]))>> >>) } :
            t \in CycleKeys }

Configs ==
    LayerConfigs \cup SingleConfigs \cup ChainConfigs \cup PairConfigs \cup CycleConfigs

\* every string over {a, @, d} of at most MaxAddrLen characters
AddrStrings ==
    UNION { [1..n -> {"a", "@", "d"}] : n \in 0..MaxAddrLen }

(***************************************************************************)
(* The state machine.  config is the loaded raw configuration, shared by   *)
(* every call; static_references is the class attribute of ConfigClass;    *)
(* email_address is the EmailAddress object of the request (at start the   *)
(* default argument of craft_mozilla_xml, EmailAddress.from_string(""));   *)
(* arg is the EmailAddress as the last get_context call received it,       *)
(* result is what the last get_context call with that object gave, first   *)
(* what the first call with it gave, calls the number of calls with it.    *)
(***************************************************************************)
NoResult ==
    [outcome |-> "none", name |-> <<>>, merged |-> EmptyDict,
     imported |-> Provider, tree |-> Provider]

\* what the caller sees of a call
Outcome(r) ==
    [outcome |-> r.outcome, name |-> r.name, merged |-> r.merged,
     imported |-> r.imported, tree |-> r.tree]

InitWith(configs) ==
    /\ config \in configs
    /\ static_references = Dict(<< <<EMAILADDRESS, full_address_ref>> >>)
    /\ request = <<>>
    /\ email_address = from_string(<<>>)
    /\ arg = from_string(<<>>)
    /\ result = NoResult
    /\ first = NoResult
    /\ calls = 0

Init == InitWith(Configs)

\* get_xml builds the EmailAddress of the request string
FromString(address) ==
    /\ request' = address
    /\ email_address' = from_string(address)
    /\ arg' = from_string(address)
    /\ result' = NoResult
    /\ first' = NoResult
    /\ calls' = 0
    /\ UNCHANGED <<config, static_references>>

\* one call get_context(config, email_address)
GetContext ==
    /\ calls < MaxCalls
    /\ LET r == get_context(config, email_address, static_references)
       IN /\ result' = Outcome(r)
          /\ first' = IF calls = 0 THEN Outcome(r) ELSE first
          /\ config' = r.config
          /\ email_address' = r.email
    /\ arg' = email_address
    /\ calls' = calls + 1
    /\ UNCHANGED <<static_references, request>>

Next ==
    \/ \E address \in Identities : FromString(address)
    \/ GetContext

Spec == Init /\ [][Next]_vars

\* identity parsing alone, over every short string, under one configuration
InitParse == InitWith({RefProvider(<<>>)})

NextParse ==
    \/ \E address \in AddrStrings : FromString(address)
    \/ GetContext

SpecParse == InitParse /\ [][NextParse]_vars

(***************************************************************************)
(* What the properties below speak of.                                     *)
(***************************************************************************)
\* a get_context call has been made with the current EmailAddress object
Called == result.outcome # "none"

\* the identity the last call received
arg_domain == arg[k_domain].s
arg_full == arg[k_full_address].s

\* the domain is among the provider's served domains
Served(cfg, dom) ==
    \E i \in 1..Len(served_domains(cfg)) : served_domains(cfg)[i] = dom

\* the layers that match the identity of the last call; the user layer is
\* keyed by local_part "@" domain, which is the full identity string of
\* every identity with exactly one "@"
DomainLayer ==
    IF arg_domain \in DOMAIN config.domain THEN config.domain[arg_domain] ELSE EmptyDict
UserLayer ==
    IF addr(arg) \in DOMAIN config.user THEN config.user[addr(arg)] ELSE EmptyDict
DomainMatched == arg_domain \in DOMAIN config.domain
UserMatched == addr(arg) \in DOMAIN config.user

\* the str fields of the tree that a flat key of the configuration sets:
\* <<node, field name, flat key>>
StrFields ==
    { <<"root", k, k>> : k \in {k_id, k_name_short, k_name_display} }
    \cup { <<"in_server", k, in_ \o k>> : k \in {k_host, k_socket, k_type, k_user} }
    \cup { <<"out_server", k, out_ \o k>> : k \in {k_host, k_socket, k_type, k_user} }

NoHash(s) == \A i \in 1..Len(s) : s[i] # "#"

C2_LayerPrecedence ==
    (Called /\ result.outcome # "HTTPException") =>
        /\ DOMAIN config.provider \cup DOMAIN DomainLayer \cup DOMAIN UserLayer
               \subseteq DOMAIN result.merged
        /\ \A F \in DOMAIN result.merged \ {k_domains} :
               result.merged[F] =
                   IF F \in DOMAIN UserLayer THEN UserLayer[F]
                   ELSE IF F \in DOMAIN DomainLayer THEN DomainLayer[F]
                   ELSE config.provider[F]
        /\ \A f \in StrFields :
               (/\ result.outcome = "context"
                /\ f[3] \in DOMAIN config.provider /\ f[3] \in DOMAIN DomainLayer
                /\ f[3] \in DOMAIN UserLayer
                /\ NoHash(UserLayer[f[3]].s))
                   => result.tree[f[1]][f[2]] = UserLayer[f[3]]

\* in_host is defined in all three layers with distinct values and the
\* identity matches both overrides
C2_Witness ==
    /\ result.outcome = "context"
    /\ DomainMatched /\ UserMatched
    /\ (in_ \o k_host) \in DOMAIN config.provider
    /\ (in_ \o k_host) \in DOMAIN DomainLayer
    /\ (in_ \o k_host) \in DOMAIN UserLayer
    /\ config.provider[in_ \o k_host] = V_str(Pv)
    /\ DomainLayer[in_ \o k_host] = V_str(Dv)
    /\ result.tree.in_server[k_host] = V_str(Uv)

(***************************************************************************)
(* C3                                                                      *)
(***************************************************************************)
\* C3: when the identity matches an entry of the domain section or of the
\* user section, the resolved domains field is exactly [identity.domain],
\* whatever the provider serves and whatever domains the override sets;
\* when neither matches, it is the provider's served-domain list.
C3_Narrowing ==
    (Called /\ result.outcome = "context") =>
        result.tree.root[k_domains] =
            IF DomainMatched \/ UserMatched
            THEN V_list(<<arg_domain>>)
            ELSE V_list(served_domains(config))

\* the provider serves two domains, only the user layer matches, and that
\* override sets domains itself
C3_Witness ==
    /\ result.outcome = "context"
    /\ ~DomainMatched /\ UserMatched
    /\ k_domains \in DOMAIN UserLayer
    /\ Len(served_domains(config)) = 2
    /\ result.tree.root[k_domains] = V_list(<<arg_domain>>)

(***************************************************************************)
(* C7                                                                      *)
(***************************************************************************)
\* C7: no step, a get_context call that returns or raises included,
\* changes the raw configuration or the static-reference table.
C7_ConfigUnchanged ==
    [][config' = config /\ static_references' = static_references]_vars

\* a call has laid both overrides over the working mapping
C7_Witness ==
    /\ result.outcome = "context"
    /\ DomainMatched /\ UserMatched
    /\ DomainLayer # EmptyDict /\ UserLayer # EmptyDict
    /\ calls = MaxCalls

(***************************************************************************)
(* C8                                                                      *)
(***************************************************************************)
AtPositions(s) == {i \in 1..Len(s) : s[i] = "@"}
FirstAt(s) == CHOOSE i \in AtPositions(s) : \A j \in AtPositions(s) : i <= j

\* C8 as stated: full is the input; with at least one "@" the local part is
\* the text before the first "@" and the domain the text after it; with no
\* "@" both are empty.
C8_SplitAtFirstAt ==
    calls = 0 =>
        /\ email_address[k_full_address].s = request
        /\ AtPositions(request) # {} =>
               /\ email_address[k_local_part].s = SubSeq(request, 1, FirstAt(request) - 1)
               /\ email_address[k_domain].s =
                      SubSeq(request, FirstAt(request) + 1, Len(request))
        /\ AtPositions(request) = {} =>
               /\ email_address[k_local_part].s = <<>>
               /\ email_address[k_domain].s = <<>>

\* C8 amended: full is the input; with exactly one "@" the local part is
\* the text before it and the domain the text after it; with no "@" or
\* with more than one, both are empty.
C8_SplitAtOnlyAt ==
    calls = 0 =>
        /\ email_address[k_full_address].s = request
        /\ Cardinality(AtPositions(request)) = 1 =>
               /\ email_address[k_local_part].s = SubSeq(request, 1, FirstAt(request) - 1)
               /\ email_address[k_domain].s =
                      SubSeq(request, FirstAt(request) + 1, Len(request))
        /\ Cardinality(AtPositions(request)) # 1 =>
               /\ email_address[k_local_part].s = <<>>
               /\ email_address[k_domain].s = <<>>

\* a request with two "@" and text around them was parsed to empty parts
C8_Witness ==
    /\ calls = 0
    /\ request = <<"a", "@", "d", "@">>
    /\ email_address[k_local_part].s = <<>>
    /\ email_address[k_domain].s = <<>>

(***************************************************************************)
(* C4                                                                      *)
(***************************************************************************)
\* the value of a str field of a tree
Field(tree, f) == tree[f[1]][f[2]].s

\* the string tok stands at position i of v
TokenAt(v, tok, i) ==
    i + Len(tok) - 1 <= Len(v) /\ SubSeq(v, i, i + Len(tok) - 1) = tok

\* C4: a str field of the root, the incoming or the outgoing server whose
\* imported value holds ##EMAILADDRESS## between literal text resolves to
\* that text with the token replaced by the full address string of the
\* identity the call was made for.
C4_StaticReference ==
    (Called /\ result.outcome = "context") =>
        \A f \in StrFields :
            LET v == Field(result.imported, f)
                tok == value_template(EMAILADDRESS)
            IN \A i \in 1..Len(v) :
                   (/\ TokenAt(v, tok, i)
                    /\ NoHash(SubSeq(v, 1, i - 1))
                    /\ NoHash(SubSeq(v, i + Len(tok), Len(v))))
                       => Field(result.tree, f) =
                              SubSeq(v, 1, i - 1) \o arg_full
                                  \o SubSeq(v, i + Len(tok), Len(v))

(***************************************************************************)
(* C5                                                                      *)
(***************************************************************************)
\* no str field of the imported tree other than those in `but` holds a
\* placeholder, the identity's fields included
OthersLiteral(but) ==
    /\ \A g \in StrFields \ but : ~HasPlaceholder(Field(result.imported, g))
    /\ \A k \in {k_full_address, k_domain, k_local_part} :
           ~HasPlaceholder(result.imported.address[k].s)

\* C5: for any three fields X, A, B with X = ##A##, A = ##B## and B a
\* literal, the resolve pass returns and X, A and B all hold B's literal.
C5_TransitiveSubstitution ==
    Called =>
        \A X \in StrFields : \A A \in StrFields \ {X} : \A B \in StrFields \ {X, A} :
            (/\ Field(result.imported, X) = value_template(A[3])
             /\ Field(result.imported, A) = value_template(B[3])
             /\ NoHash(Field(result.imported, B))
             /\ OthersLiteral({X, A}))
                => /\ result.outcome = "context"
                   /\ Field(result.tree, X) = Field(result.imported, B)
                   /\ Field(result.tree, A) = Field(result.imported, B)
                   /\ Field(result.tree, B) = Field(result.imported, B)

(***************************************************************************)
(* C6                                                                      *)
(***************************************************************************)
Nodes == {"root", "in_server", "out_server", "address"}

\* C6: when resolve_references returns normally, no str field of any node
\* of the tree holds a substring ##NAME##.
C6_NoPlaceholderLeft ==
    (Called /\ result.outcome = "context") =>
        \A node \in Nodes : \A k \in DOMAIN result.tree[node] :
            result.tree[node][k].t = "str"
                => ~HasPlaceholder(result.tree[node][k].s)

(***************************************************************************)
(* C9                                                                      *)
(***************************************************************************)
\* C9: a second get_context call with the same raw configuration and the
\* same identity gives what the first gave: the same outcome and the same
\* value in every field of every node.
C9_Idempotent ==
    calls >= 2 => result = first

(***************************************************************************)
(* C10                                                                     *)
(***************************************************************************)
\* C10: for each field f of the incoming and of the outgoing server, a
\* field X holding the token ##<prefix><f>## resolves to the resolved
\* value of that server's field f.
C10_PrefixStrippedLookup ==
    Called =>
        \A X \in StrFields : \A N \in {f \in StrFields : f[1] # "root"} \ {X} :
            (/\ Field(result.imported, X) = value_template(N[3])
             /\ OthersLiteral({X}))
                => /\ result.outcome = "context"
                   /\ Field(result.tree, X) = Field(result.tree, N)

(***************************************************************************)
(* C11                                                                     *)
(***************************************************************************)
\* C11: after get_context has returned, the full address, the local part
\* and the domain of the identity object are the values parsed from the
\* request string, also when that string holds ##NAME## sequences.
C11_IdentityImmutable ==
    (Called /\ result.outcome = "context") =>
        \A k \in {k_full_address, k_local_part, k_domain} :
            email_address[k] = from_string(request)[k]

(***************************************************************************)
(* C12                                                                     *)
(***************************************************************************)
\* the fields of the imported tree: <<node, field name>>
TreeFields == UNION { {<<n, k>> : k \in DOMAIN result.imported[n]} : n \in Nodes }

SeqToSet(q) == {q[i] : i \in 1..Len(q)}

\* the names a field's value refers to: the names of its placeholders, a
\* name of the static table replaced by the names in the table's entry;
\* the resolve pass reads str fields only and skips prefix
TokensOf(x) ==
    LET v == result.imported[x[1]][x[2]]
    IN IF v.t = "str" /\ x[2] # k_prefix
       THEN UNION { IF t \in DOMAIN static_references
                    THEN SeqToSet(value_match(static_references[t]))
                    ELSE {t} : t \in SeqToSet(value_match(v.s)) }
       ELSE {}

\* the fields self_reference reads for a name: in every node, the field
\* whose name is the node's local name of it
Targets(name) ==
    { f \in TreeFields :
          local_name(name, result.imported[f[1]][k_prefix].s) = f[2] }

\* the edges of the reference graph
Refers(x) == UNION { Targets(t) : t \in TokensOf(x) }

RECURSIVE ReachFrom(_)
ReachFrom(S) ==
    LET T == S \cup UNION { Refers(y) : y \in S }
    IN IF T = S THEN S ELSE ReachFrom(T)

\* some field lies on a reference cycle
Cyclic == \E x \in TreeFields : x \in ReachFrom(Refers(x))

\* every name referred to is found, in str fields only
AllResolvable ==
    \A x \in TreeFields : \A t \in TokensOf(x) :
        /\ Targets(t) # {}
        /\ \A f \in Targets(t) : result.imported[f[1]][f[2]].t = "str"

====
